---- MODULE Spec2Model ----
(***************************************************************************)
(* Model of the daily analytics pipeline of chainswarm/analytics-pipeline. *)
(*                                                                         *)
(* A run is one call of DailyAnalyticsPipelineTask.execute_task for a      *)
(* context (network, window_days, processing_date).  Runs of different     *)
(* contexts may execute in parallel on different workers; every database   *)
(* command (TRUNCATE, ALTER TABLE DELETE, INSERT, SELECT) is one atomic    *)
(* step and is applied when the client call returns.  Time is counted in   *)
(* hours instead of milliseconds; a processing_date is a day number.       *)
(***************************************************************************)
EXTENDS Integers, Sequences, FiniteSets, TLC

\* ------------------------------------------------------------------ bounds
MaxDispatch == 2      \* how often the scheduler dispatches one context
chunk_size == 2       \* analyze_address_features(chunk_size=...)
batch_size == 2       \* context.batch_size
MaxRows == 3          \* rows handed to the graph builder
MaxStageSeconds == 2  \* longest time one stage of a run may take, in seconds

\* ------------------------------------------------------- program constants
HoursPerDay == 24
max_retries == 3      \* retry_kwargs of daily_analytics_pipeline_task

\* ------------------------------------------------------------ input spaces
Runs == {"r1", "r2"}
Networks == {"n1", "n2"}
WindowDays == {1, 2}
Dates == {2, 3}
TZOffsets == {-1, 0, 1}          \* UTC offset of a worker host, hours
Addresses == {"a1", "a2", "a3"}

\* The upstream ledger: the transfers (from, to) of each day.
SourceTransfers(day) ==
    CASE day = 0 -> {<<"a1", "a2">>}
      [] day = 1 -> {<<"a2", "a3">>, <<"a3", "a1">>}
      [] day = 2 -> {<<"a3", "a2">>, <<"a1", "a2">>}
      [] OTHER   -> {}

\* ------------------------------------------------------------------ helpers
Min(a, b) == IF a <= b THEN a ELSE b

AddrIndex(a) == CASE a = "a1" -> 1 [] a = "a2" -> 2 [] a = "a3" -> 3
                  [] a = "a4" -> 4 [] a = "a5" -> 5 [] a = "a6" -> 6 [] a = "a7" -> 7

RECURSIVE SortedSeq(_)
\* sorted(list(addresses_set)): ascending order of the addresses
SortedSeq(S) ==
    IF S = {} THEN <<>>
    ELSE LET m == CHOOSE x \in S : \A y \in S : AddrIndex(x) <= AddrIndex(y)
         IN <<m>> \o SortedSeq(S \ {m})

SeqToSet(s) == {s[k] : k \in 1 .. Len(s)}

\* list[i : i + n] with a 0-based start, as Python slices it
Slice(s, i, n) == SubSeq(s, i + 1, Min(i + n, Len(s)))

\* ------------------------------------------------------------ time windows

calculate_time_window(window_days, processing_date) ==
    LET get_window_milliseconds(window_days0) == window_days0 * HoursPerDay
        end_timestamp == processing_date * HoursPerDay
    IN <<end_timestamp - get_window_milliseconds(window_days), end_timestamp>>

\* block_timestamp of the transfers of a day
BlockTimestamp(day) == day * HoursPerDay

\* datetime.fromtimestamp(ts, tz=timezone.utc).strftime('%Y-%m-%d')
UtcDate(ts) == ts \div HoursPerDay

\* datetime.fromtimestamp(ts).strftime('%Y-%m-%d'): the host's local date
LocalDate(ts, offset) == (ts + offset) \div HoursPerDay


\* ------------------------------------------------------------ configuration
\* structural_pattern_settings.json (values chosen for the model)
config ==
    [cycle_detection |-> [min_cycle_length |-> 3, max_cycle_length |-> 10,
                          max_cycles_per_scc |-> 2,
                          network_overrides |-> [n2 |-> [min_cycle_length |-> 4]]],
     scc_analysis |-> [min_scc_size |-> 3, z_score_normalization |-> 1,
                       anomaly_threshold |-> 1],
     motif_detection |-> [fanin_max_out_degree |-> 1, fanout_max_in_degree |-> 1],
     proximity_analysis |-> [max_distance |-> 2],
     path_analysis |-> [min_path_length |-> 3, max_path_length |-> 3,
                        max_paths_to_check |-> 3, high_volume_percentile |-> 0,
                        max_source_nodes |-> 3, max_target_nodes |-> 3],
     threshold_detection |-> [min_transactions_near_threshold |-> 2]]

\* ------------------------------------------------------------------ storage
\* PatternTypes
PatternTypes ==
    {"cycle", "layering_path", "smurfing_network", "proximity_risk",
     "motif_fanin", "motif_fanout", "temporal_burst", "threshold_evasion"}

\* MigrateSchema.analyzer_schemas: the specialised pattern tables
AllPatternTables ==
    {"analyzers_patterns_cycle", "analyzers_patterns_layering",
     "analyzers_patterns_network", "analyzers_patterns_proximity",
     "analyzers_patterns_motif", "analyzers_patterns_burst",
     "analyzers_patterns_threshold"}

\* A mapping that lost the motif entries (mutant).
PATTERN_TYPE_TABLES_NoMotif ==
    [t \in PatternTypes \ {"motif_fanin", "motif_fanout"} |->
        CASE t = "cycle"             -> "analyzers_patterns_cycle"
          [] t = "layering_path"     -> "analyzers_patterns_layering"
          [] t = "smurfing_network"  -> "analyzers_patterns_network"
          [] t = "proximity_risk"    -> "analyzers_patterns_proximity"
          [] t = "temporal_burst"    -> "analyzers_patterns_burst"
          [] t = "threshold_evasion" -> "analyzers_patterns_threshold"]

\* StructuralPatternRepository.PATTERN_TYPE_TABLES
PATTERN_TYPE_TABLES ==
    [t \in PatternTypes |->
        CASE t = "cycle"             -> "analyzers_patterns_cycle"
          [] t = "layering_path"     -> "analyzers_patterns_layering"
          [] t = "smurfing_network"  -> "analyzers_patterns_network"
          [] t = "proximity_risk"    -> "analyzers_patterns_proximity"
          [] t = "motif_fanin"       -> "analyzers_patterns_motif"
          [] t = "motif_fanout"      -> "analyzers_patterns_motif"
          [] t = "temporal_burst"    -> "analyzers_patterns_burst"
          [] t = "threshold_evasion" -> "analyzers_patterns_threshold"]

\* unique_tables = set(self.PATTERN_TYPE_TABLES.values())
unique_tables == {PATTERN_TYPE_TABLES[t] : t \in DOMAIN PATTERN_TYPE_TABLES}

InPartition(row, window_days, processing_date) ==
    row.window_days = window_days /\ row.processing_date = processing_date

\* ALTER TABLE <table> DELETE WHERE window_days = .. AND processing_date = ..
DeleteWhere(rows, window_days, processing_date) ==
    {row \in rows : ~InPartition(row, window_days, processing_date)}

\* StructuralPatternRepository.delete_partition, the commands issued for the
\* tables in done (all of unique_tables when no command raises)
pattern_delete_partition(tables, done, window_days, processing_date) ==
    [t \in DOMAIN tables |->
        IF t \in done THEN DeleteWhere(tables[t], window_days, processing_date)
        ELSE tables[t]]

\* FeatureRepository.insert_features: one row per feature of the batch
insert_features(table, features, window_days, processing_date, version) ==
    table \cup {[window_days |-> window_days, processing_date |-> processing_date,
                 feature |-> features[k], version |-> version] :
                k \in 1 .. Len(features)}

PatternRow(pattern, window_days, processing_date, version) ==
    [window_days |-> window_days, processing_date |-> processing_date,
     pattern_id |-> pattern.pattern_id, pattern_type |-> pattern.pattern_type,
     version |-> version]

\* A routing that sends every type to the cycle table (mutant).
TableOfPatternType_AllCycle(pattern_type) == "analyzers_patterns_cycle"

\* table_name = self.PATTERN_TYPE_TABLES[pattern_type]
TableOfPatternType(pattern_type) == PATTERN_TYPE_TABLES[pattern_type]

\* StructuralPatternRepository.insert_deduplicated_patterns: the client.insert
\* of the group of one pattern type; unknown types are skipped
insert_pattern_group(tables, patterns, pattern_type, window_days, processing_date, version) ==
    IF pattern_type \notin DOMAIN PATTERN_TYPE_TABLES THEN tables
    ELSE [tables EXCEPT ![TableOfPatternType(pattern_type)] =
            @ \cup {PatternRow(p, window_days, processing_date, version) :
                    p \in {q \in patterns : q.pattern_type = pattern_type}}]

\* SELECT ... WHERE window_days = .. AND processing_date = .. over the
\* specialised tables, each row with the table that holds it
ReadPatternPartition(tables, window_days, processing_date) ==
    UNION {{[table |-> t, row |-> row] :
            row \in {x \in tables[t] : InPartition(x, window_days, processing_date)}} :
           t \in DOMAIN tables}

\* A log_completion whose INSERT is issued twice (mutant).
log_completion_Twice(table, window_days, processing_date, version) ==
    table \o << [window_days |-> window_days, processing_date |-> processing_date,
                 version |-> version],
                [window_days |-> window_days, processing_date |-> processing_date,
                 version |-> version] >>

\* ComputationAuditRepository.log_completion: one INSERT
log_completion(table, window_days, processing_date, version) ==
    Append(table, [window_days |-> window_days,
                   processing_date |-> processing_date, version |-> version])

\* extractor.extract: the transfers with start <= block_timestamp < end
extract(window_days, processing_date) ==
    LET Days == 0 .. 2
        tw == calculate_time_window(window_days, processing_date)
    IN {[from_address |-> e[1], to_address |-> e[2], day |-> day] :
        <<e, day>> \in {x \in (Addresses \X Addresses) \X Days :
                          /\ x[1] \in SourceTransfers(x[2])
                          /\ tw[1] <= BlockTimestamp(x[2])
                          /\ BlockTimestamp(x[2]) < tw[2]}}

\* ParquetLoader.load_directory: insert_df into core_transfers
load_directory(table, rows, load) ==
    table \cup {[from_address |-> r.from_address, to_address |-> r.to_address,
                 day |-> r.day, load |-> load] : r \in rows}

\* MoneyFlowsRepository.get_windowed_flows_from_transfers: GROUP BY pair
get_windowed_flows_from_transfers(table, start_ts, end_ts) ==
    LET inwin == {r \in table : /\ start_ts <= BlockTimestamp(r.day)
                                /\ BlockTimestamp(r.day) < end_ts}
        pairs == {<<r.from_address, r.to_address>> : r \in inwin}
    IN {[from_address |-> p[1], to_address |-> p[2],
         tx_count |-> Cardinality({r \in inwin : /\ r.from_address = p[1]
                                                 /\ r.to_address = p[2]})] :
        p \in pairs}

\* TransferRepository.get_bulk_address_amount_moments: n per address
get_bulk_address_amount_moments(table, chunk, start_ts, end_ts) ==
    [a \in Addresses |->
        IF a \in SeqToSet(chunk)
        THEN Cardinality({r \in table : /\ start_ts <= BlockTimestamp(r.day)
                                        /\ BlockTimestamp(r.day) < end_ts
                                        /\ (r.from_address = a \/ r.to_address = a)})
        ELSE 0]


\* ------------------------------------------------------------------ analysis
\* _extract_addresses_from_flows: sorted unique addresses
extract_addresses_from_flows(flows) ==
    SortedSeq({f.from_address : f \in flows} \cup {f.to_address : f \in flows})

\* _build_graph_from_flows_data: one edge per (from, to)
GraphEdges(flows) == {<<f.from_address, f.to_address>> : f \in flows}
GraphNodes(flows) == SeqToSet(extract_addresses_from_flows(flows))

\* The feature record of one address (lines 103-183): built from the address's
\* flows of the graph and from the chunk's bulk aggregates
compute_features(address, flows, moments) ==
    LET \* _build_flows_index_from_graph: the flows incident to an address
        flows_by_address(flows0, address0) ==
            {f \in flows0 : f.from_address = address0 \/ f.to_address = address0}
    IN
    [address |-> address,
     flows |-> flows_by_address(flows, address),
     moments |-> moments[address]]

\* generate_pattern_hash: SHA-256 of type ":" sorted addresses, taken as
\* injective on (type, address set)
generate_pattern_hash(pattern_type, addresses) == <<pattern_type, addresses>>

\* generate_pattern_id
generate_pattern_id(pattern_type, pattern_hash) == <<pattern_type, pattern_hash>>

Pattern(pattern_type, addresses) ==
    [pattern_type |-> pattern_type,
     pattern_id |-> generate_pattern_id(pattern_type,
                        generate_pattern_hash(pattern_type, addresses))]

\* nx.simple_cycles: the node sequences without repetition that close
SimpleCycles(flows) ==
    LET E == GraphEdges(flows)
        N == GraphNodes(flows)
    IN UNION {{c \in [1 .. n -> N] :
                  /\ \A k1, k2 \in 1 .. n : c[k1] = c[k2] => k1 = k2
                  /\ \A k \in 1 .. n : <<c[k], c[(k % n) + 1]>> \in E} :
              n \in 1 .. Cardinality(N)}

\* BasePatternDetector._get_config_value: the value of the network's override
\* when there is one, the value of the section otherwise
get_config_value(network, section, key) ==
    LET section_config == config[section]
    IN IF /\ "network_overrides" \in DOMAIN section_config
          /\ network \in DOMAIN section_config.network_overrides
          /\ key \in DOMAIN section_config.network_overrides[network]
       THEN section_config.network_overrides[network][key]
       ELSE section_config[key]

\* the cycle patterns kept by the length filter of the cycle detection
CyclePatterns(flows, min_cycle_length, max_cycle_length) ==
    {Pattern("cycle", SeqToSet(c)) :
     c \in {x \in SimpleCycles(flows) :
              /\ Len(x) >= 2
              /\ Len(x) >= min_cycle_length
              /\ Len(x) <= max_cycle_length}}

\* _detect_cycles_deduplicated; on three addresses the cycles that pass the length
\* filter share one address set, so max_cycles_per_scc does not change the result
detect_cycles_deduplicated(flows) ==
    CyclePatterns(flows, config.cycle_detection.min_cycle_length,
                  config.cycle_detection.max_cycle_length)

\* _detect_motifs_deduplicated
detect_motifs_deduplicated(flows) ==
    LET \* deg >= np.percentile(degrees, 95): with at most twenty nodes the 95th
        \* percentile lies above the second largest degree, so only the maximum reaches it
        ReachesPercentile(deg, degrees) == \A x \in degrees : deg >= x
        out_degree(flows0, node0) == Cardinality({e \in GraphEdges(flows0) : e[1] = node0})
        in_degree(flows0, node) == Cardinality({e \in GraphEdges(flows0) : e[2] = node})
        N == GraphNodes(flows)
        E == GraphEdges(flows)
        indegs == {in_degree(flows, n) : n \in N}
        outdegs == {out_degree(flows, n) : n \in N}
        fanin == {n \in N : /\ ReachesPercentile(in_degree(flows, n), indegs)
                            /\ out_degree(flows, n) <= config.motif_detection.fanin_max_out_degree}
        fanout == {n \in N : /\ ReachesPercentile(out_degree(flows, n), outdegs)
                             /\ in_degree(flows, n) <= config.motif_detection.fanout_max_in_degree}
    IN {Pattern("motif_fanin", {n} \cup {e[1] : e \in {x \in E : x[2] = n}}) : n \in fanin}
       \cup
       {Pattern("motif_fanout", {n} \cup {e[2] : e \in {x \in E : x[1] = n}}) : n \in fanout}

RECURSIVE SumTxCount(_)
SumTxCount(flows) ==
    IF flows = {} THEN 0
    ELSE LET f == CHOOSE x \in flows : TRUE
         IN f.tx_count + SumTxCount(flows \ {f})

\* ThresholdDetector.detect with one threshold: a node is reported when it has
\* min_transactions_near_threshold outgoing transactions or more, all close to
\* the threshold. Every transfer of the ledger moves the same amount, between
\* 80% and 99% of the threshold, so clustering_score and size_consistency are 1.
ThresholdDetector_detect(flows) ==
    {Pattern("threshold_evasion", {n}) :
     n \in {x \in GraphNodes(flows) :
              SumTxCount({f \in flows : f.from_address = x})
                  >= config.threshold_detection.min_transactions_near_threshold}}

\* analyze_structural_patterns, lines 77-107: deduplicated_patterns
deduplicated_patterns(flows) ==
    LET \* _detect_smurfing_deduplicated: no community on three addresses reaches min_community_size
        detect_smurfing_deduplicated(flows0) == {}
        \* _analyze_proximity_deduplicated: no labelled or heuristic risk source among the addresses
        analyze_proximity_deduplicated(flows0) == {}
        \* _detect_layering_deduplicated: no simple path on three addresses reaches min_path_length
        detect_layering_deduplicated(flows0) == {}
        \* _analyze_scc_deduplicated: on three addresses an SCC of min_scc_size is the
        \* only SCC, so std_size = 0 and its score stays below anomaly_threshold
        analyze_scc_deduplicated(flows0) == {}
    IN
    detect_cycles_deduplicated(flows) \cup analyze_scc_deduplicated(flows)
    \cup detect_layering_deduplicated(flows) \cup analyze_proximity_deduplicated(flows)
    \cup detect_smurfing_deduplicated(flows) \cup detect_motifs_deduplicated(flows)


\* -------------------------------------------------------------------- state
VARIABLES
    run,                        \* per run: context, position and locals of execute_task
    core_transfers,             \* per network: rows of core_transfers
    analyzers_features,         \* per network: rows of analyzers_features
    pattern_tables,             \* per network: rows of each specialised pattern table
    analyzers_computation_audit,\* per network: rows of the audit table, in insertion order
    terminate_event,            \* the process-wide terminate flag
    repo,                       \* a direct client of StructuralPatternRepository
    det                         \* a detector invoked on a graph: position and locals

vars == <<run, core_transfers, analyzers_features, pattern_tables,
          analyzers_computation_audit, terminate_event, repo, det>>

\* --------------------------------------------------------------- orchestrator
\* A pipeline that runs the patterns stage before the features stage (mutant).
StageOrder_Swapped == <<"ingest", "initialize", "patterns", "features", "audit">>

\* DailyAnalyticsPipelineTask.execute_task, lines 33-67: the sub-tasks in call order
StageOrder == <<"ingest", "initialize", "features", "patterns", "audit">>

FirstStep(stage) ==
    CASE stage = "ingest"     -> "ingest_truncate"
      [] stage = "initialize" -> "initialize"
      [] stage = "features"   -> "feat_delete"
      [] stage = "patterns"   -> "pat_delete"
      [] stage = "audit"      -> "audit"

StageOfStep(pc) ==
    CASE pc \in {"ingest_truncate", "ingest_load"} -> "ingest"
      [] pc = "initialize" -> "initialize"
      [] pc \in {"feat_delete", "feat_read", "feat_chunk", "feat_addr", "feat_insert"} -> "features"
      [] pc \in {"pat_delete", "pat_read", "pat_detect", "pat_insert"} -> "patterns"
      [] pc = "audit" -> "audit"
      [] OTHER -> "none"

\* Where execute_task continues when the call of a stage returns.
AfterStage(stage) ==
    LET StageIndex(stage0) == CHOOSE k \in 1 .. Len(StageOrder) : StageOrder[k] = stage0
    IN
    IF StageIndex(stage) = Len(StageOrder) THEN "success"
    ELSE FirstStep(StageOrder[StageIndex(stage) + 1])

\* An except clause that logs the error and carries on (mutant).
AfterError_Swallow(stage) == AfterStage(stage)

\* execute_task, lines 76-78: except Exception as e: log; raise e
AfterError(stage) == "failed"

\* execute_task has returned or raised: its frame and locals are gone
Ended(rec) ==
    [rec EXCEPT !.windowed_flows = {}, !.addresses = <<>>, !.i = 0, !.j = 0,
                !.amount_moments = [a \in Addresses |-> 0],
                !.chunk_features_list = <<>>, !.all_features_list = <<>>,
                !.insert_j = 0, !.patterns = {}, !.pending_types = {},
                !.insert_date = 0]

Enter(rec, pc) ==
    IF pc \in {"success", "failed"} THEN Ended([rec EXCEPT !.pc = pc])
    ELSE [rec EXCEPT !.pc = pc, !.stages = Append(@, StageOfStep(pc))]

\* the stage returned normally
Advance(rec, stage) == Enter(rec, AfterStage(stage))

\* the stage raised
Raise(rec, stage) == Enter([rec EXCEPT !.error_stage = stage], AfterError(stage))

Version(r) == <<r, run[r].attempt>>
TimeWindow(r) == calculate_time_window(run[r].window_days, run[r].processing_date)

\* The locals of a run before execute_task starts.
FreshRun(network, window_days, processing_date, budget) ==
    [pc |-> "idle", network |-> network, window_days |-> window_days,
     processing_date |-> processing_date, budget |-> budget, attempt |-> 0,
     stages |-> <<>>, error_stage |-> "none",
     windowed_flows |-> {}, addresses |-> <<>>, i |-> 0, j |-> 0,
     amount_moments |-> [a \in Addresses |-> 0],
     chunk_features_list |-> <<>>, all_features_list |-> <<>>, insert_j |-> 0,
     patterns |-> {}, pending_types |-> {}, insert_date |-> 0,
     chunks_started |-> {}, trunc_skipped |-> FALSE, ingest_loaded |-> FALSE,
     features_deleted |-> FALSE, tables_deleted |-> {}, retries |-> 0]

RepoOff == [pc |-> "off", window_days |-> 0, processing_date |-> 0,
            patterns |-> {}, pending_types |-> {}]

DetOff == [pc |-> "off", flows |-> {}, sccs |-> {}, started |-> {}, failed |-> {},
           patterns_by_id |-> {}, patterns |-> {}, invocation |-> 0,
           first_result |-> {}]

UnchangedDb == UNCHANGED <<core_transfers, analyzers_features, pattern_tables,
                           analyzers_computation_audit>>
UnchangedEnv == UNCHANGED <<terminate_event, repo, det>>


\* An analyzer that goes on with an empty flow set (mutant).
NoFlowsInWindow_Accepted(flows) == FALSE

\* analyze_structural_patterns and analyze_address_features: if not flows:
\* raise ValueError("No flows found in time window ...")
NoFlowsInWindow(flows) == flows = {}

\* ------------------------------------------------------------------- actions
\* The scheduler dispatches daily_analytics_pipeline_task for the run's context.
Dispatch(r) ==
    /\ run[r].pc \in {"idle", "success", "failed"}
    /\ run[r].budget > 0
    /\ run' = [run EXCEPT ![r] =
                 Enter([FreshRun(run[r].network, run[r].window_days,
                                 run[r].processing_date, run[r].budget - 1)
                          EXCEPT !.attempt = run[r].attempt + 1],
                       FirstStep(StageOrder[1]))]
    /\ UnchangedDb /\ UnchangedEnv

\* IngestionService._truncate_base_tables: TRUNCATE TABLE core_transfers; an
\* exception of the command is logged as a warning and the run goes on
IngestTruncate(r) ==
    /\ run[r].pc = "ingest_truncate"
    /\ \E truncated \in BOOLEAN :
         /\ core_transfers' = IF truncated
                              THEN [core_transfers EXCEPT ![run[r].network] = {}]
                              ELSE core_transfers
         /\ run' = [run EXCEPT ![r].pc = "ingest_load",
                               ![r].trunc_skipped = ~truncated]
    /\ UNCHANGED <<analyzers_features, pattern_tables, analyzers_computation_audit>>
    /\ UnchangedEnv

\* IngestionService.run, lines 130-133: extract and load the window
IngestLoad(r) ==
    /\ run[r].pc = "ingest_load"
    /\ core_transfers' =
         [core_transfers EXCEPT ![run[r].network] =
            load_directory(@, extract(run[r].window_days, run[r].processing_date),
                           Version(r))]
    /\ run' = [run EXCEPT ![r] = Advance([@ EXCEPT !.ingest_loaded = TRUE], "ingest")]
    /\ UNCHANGED <<analyzers_features, pattern_tables, analyzers_computation_audit>>
    /\ UnchangedEnv

\* InitializeAnalyzersTask.execute_task: idempotent schema migrations
InitializeAnalyzers(r) ==
    /\ run[r].pc = "initialize"
    /\ run' = [run EXCEPT ![r] = Advance(@, "initialize")]
    /\ UnchangedDb /\ UnchangedEnv

\* BuildFeaturesTask.execute_task, line 42
FeatDelete(r) ==
    LET \* FeatureRepository.delete_partition
        feature_delete_partition(table, window_days, processing_date) ==
            DeleteWhere(table, window_days, processing_date)
    IN
    /\ run[r].pc = "feat_delete"
    /\ analyzers_features' =
         [analyzers_features EXCEPT ![run[r].network] =
            feature_delete_partition(@, run[r].window_days, run[r].processing_date)]
    /\ run' = [run EXCEPT ![r].pc = "feat_read", ![r].features_deleted = TRUE]
    /\ UNCHANGED <<core_transfers, pattern_tables, analyzers_computation_audit>>
    /\ UnchangedEnv

\* analyze_address_features, lines 37-63
FeatRead(r) ==
    /\ run[r].pc = "feat_read"
    /\ LET flows == get_windowed_flows_from_transfers(
                        core_transfers[run[r].network], TimeWindow(r)[1], TimeWindow(r)[2])
       IN run' = [run EXCEPT ![r] =
                    IF NoFlowsInWindow(flows) THEN Raise(@, "features")
                    ELSE [@ EXCEPT !.pc = "feat_chunk", !.windowed_flows = flows,
                                   !.addresses = extract_addresses_from_flows(flows),
                                   !.i = 0, !.all_features_list = <<>>]]
    /\ UnchangedDb /\ UnchangedEnv

\* analyze_address_features, lines 64-99: the head of the chunk loop
FeatChunk(r) ==
    /\ run[r].pc = "feat_chunk"
    /\ run' = [run EXCEPT ![r] =
                 IF run[r].i >= Len(run[r].addresses) \/ terminate_event
                 THEN [@ EXCEPT !.pc = "feat_insert", !.insert_j = 0]
                 ELSE [@ EXCEPT !.pc = "feat_addr", !.j = 0,
                                !.chunk_features_list = <<>>,
                                !.chunks_started = @ \cup {run[r].i},
                                !.amount_moments =
                                    get_bulk_address_amount_moments(
                                        core_transfers[run[r].network],
                                        Slice(run[r].addresses, run[r].i, chunk_size),
                                        TimeWindow(r)[1], TimeWindow(r)[2])]]
    /\ UnchangedDb /\ UnchangedEnv

\* analyze_address_features, lines 100-184: one address of the chunk
FeatAddr(r) ==
    /\ run[r].pc = "feat_addr"
    /\ LET chunk == Slice(run[r].addresses, run[r].i, chunk_size)
           done == Append(run[r].chunk_features_list,
                          compute_features(chunk[run[r].j + 1], run[r].windowed_flows,
                                           run[r].amount_moments))
       IN run' = [run EXCEPT ![r] =
                    IF terminate_event
                    THEN [@ EXCEPT !.pc = "feat_chunk", !.i = @ + chunk_size,
                                   !.all_features_list = @ \o run[r].chunk_features_list]
                    ELSE IF run[r].j + 1 = Len(chunk)
                    THEN [@ EXCEPT !.pc = "feat_chunk", !.i = @ + chunk_size,
                                   !.chunk_features_list = done,
                                   !.all_features_list = @ \o done]
                    ELSE [@ EXCEPT !.j = @ + 1, !.chunk_features_list = done]]
    /\ UnchangedDb /\ UnchangedEnv

\* analyze_address_features, lines 186-203: one insert_features call, or the
\* read of the unbound total_inserted when nothing was generated
FeatInsert(r) ==
    /\ run[r].pc = "feat_insert"
    /\ IF run[r].all_features_list = <<>>
       THEN /\ run' = [run EXCEPT ![r] = Raise(@, "features")]
            /\ UNCHANGED analyzers_features
       ELSE /\ analyzers_features' =
                 [analyzers_features EXCEPT ![run[r].network] =
                    insert_features(@, Slice(run[r].all_features_list, run[r].insert_j, batch_size),
                                    run[r].window_days, UtcDate(TimeWindow(r)[2]), Version(r))]
            /\ run' = [run EXCEPT ![r] =
                         IF run[r].insert_j + batch_size >= Len(run[r].all_features_list)
                         THEN Advance([@ EXCEPT !.insert_j = @ + batch_size], "features")
                         ELSE [@ EXCEPT !.insert_j = @ + batch_size]]
    /\ UNCHANGED <<core_transfers, pattern_tables, analyzers_computation_audit>>
    /\ UnchangedEnv

\* DetectStructuralPatternsTask.execute_task, line 27: every command succeeds
PatDelete(r) ==
    /\ run[r].pc = "pat_delete"
    /\ pattern_tables' =
         [pattern_tables EXCEPT ![run[r].network] =
            pattern_delete_partition(@, unique_tables, run[r].window_days,
                                     run[r].processing_date)]
    /\ run' = [run EXCEPT ![r].pc = "pat_read", ![r].tables_deleted = unique_tables]
    /\ UNCHANGED <<core_transfers, analyzers_features, analyzers_computation_audit>>
    /\ UnchangedEnv

\* delete_partition raises at one of its commands, after those of done; only the
\* commands on tables that hold rows of the partition change anything
PatDeleteFail(r) ==
    /\ run[r].pc = "pat_delete"
    /\ \E done \in SUBSET {t \in unique_tables :
                            \E row \in pattern_tables[run[r].network][t] :
                                InPartition(row, run[r].window_days, run[r].processing_date)} :
         /\ done # unique_tables
         /\ pattern_tables' =
              [pattern_tables EXCEPT ![run[r].network] =
                 pattern_delete_partition(@, done, run[r].window_days,
                                          run[r].processing_date)]
    /\ run' = [run EXCEPT ![r] = Raise(@, "patterns")]
    /\ UNCHANGED <<core_transfers, analyzers_features, analyzers_computation_audit>>
    /\ UnchangedEnv

\* analyze_structural_patterns, lines 46-73
PatRead(r) ==
    /\ run[r].pc = "pat_read"
    /\ LET flows == get_windowed_flows_from_transfers(
                        core_transfers[run[r].network], TimeWindow(r)[1], TimeWindow(r)[2])
       IN run' = [run EXCEPT ![r] =
                    IF NoFlowsInWindow(flows) THEN Raise(@, "patterns")
                    ELSE [@ EXCEPT !.pc = "pat_detect", !.windowed_flows = flows]]
    /\ UnchangedDb /\ UnchangedEnv

\* analyze_structural_patterns, lines 75-109: the detectors, on a worker host
\* whose local time is tz_offset hours from UTC
PatDetect(r) ==
    /\ run[r].pc = "pat_detect"
    /\ \E tz_offset \in TZOffsets :
         LET found == deduplicated_patterns(run[r].windowed_flows)
         IN run' = [run EXCEPT ![r] =
                      IF found = {} THEN Advance(@, "patterns")
                      ELSE [@ EXCEPT !.pc = "pat_insert", !.patterns = found,
                                     !.pending_types = {p.pattern_type : p \in found},
                                     !.insert_date = LocalDate(TimeWindow(r)[2], tz_offset)]]
    /\ UnchangedDb /\ UnchangedEnv

\* insert_deduplicated_patterns: the insert of one pattern type; the groups go
\* in the order of the list, the cycle patterns first
PatInsert(r) ==
    /\ run[r].pc = "pat_insert"
    /\ \E t \in run[r].pending_types :
         /\ t = "cycle" \/ "cycle" \notin run[r].pending_types
         /\ pattern_tables' =
              [pattern_tables EXCEPT ![run[r].network] =
                 insert_pattern_group(@, run[r].patterns, t, run[r].window_days,
                                      run[r].insert_date, Version(r))]
         /\ run' = [run EXCEPT ![r] =
                      IF run[r].pending_types = {t}
                      THEN Advance([@ EXCEPT !.pending_types = {}], "patterns")
                      ELSE [@ EXCEPT !.pending_types = @ \ {t}]]
    /\ UNCHANGED <<core_transfers, analyzers_features, analyzers_computation_audit>>
    /\ UnchangedEnv

\* LogComputationAuditTask.execute_task
LogAudit(r) ==
    /\ run[r].pc = "audit"
    /\ analyzers_computation_audit' =
         [analyzers_computation_audit EXCEPT ![run[r].network] =
            log_completion(@, run[r].window_days, run[r].processing_date, Version(r))]
    /\ run' = [run EXCEPT ![r] = Advance(@, "audit")]
    /\ UNCHANGED <<core_transfers, analyzers_features, pattern_tables>>
    /\ UnchangedEnv

\* A command of the current step raises; the exception leaves the stage.
StepRaises(r) ==
    LET \* The steps whose database or file command may raise without effect.
        FallibleSteps ==
            {"ingest_truncate", "ingest_load", "initialize", "feat_delete", "feat_read",
             "feat_chunk", "feat_insert", "pat_read", "pat_insert", "audit"}
    IN
    /\ run[r].pc \in FallibleSteps
    /\ run' = [run EXCEPT ![r] = Raise(@, StageOfStep(run[r].pc))]
    /\ UnchangedDb /\ UnchangedEnv

\* shutdown_handler: SIGINT or SIGTERM sets the flag; only the feature stage
\* polls it, so the signal is taken to arrive while a feature stage is polling
SetTerminate ==
    /\ ~terminate_event
    /\ \E r \in Runs : run[r].pc \in {"feat_chunk", "feat_addr"}
    /\ terminate_event' = TRUE
    /\ UNCHANGED <<run, repo, det>>
    /\ UnchangedDb


\* ------------------------------------------------------------ specification
Contexts == Networks \X WindowDays \X Dates

EmptyDb ==
    LET EmptyTables == [t \in AllPatternTables |-> {}]
    IN
    /\ core_transfers = [n \in Networks |-> {}]
    /\ analyzers_features = [n \in Networks |-> {}]
    /\ pattern_tables = [n \in Networks |-> EmptyTables]
    /\ analyzers_computation_audit = [n \in Networks |-> <<>>]

\* The scheduler dispatches one context, up to MaxDispatch times (a retry after
\* a failure, or a re-run of the same date); any command may raise.
Init ==
    /\ \E c \in Contexts :
         run = [r \in Runs |->
                  IF r = "r1" THEN FreshRun(c[1], c[2], c[3], MaxDispatch)
                  ELSE FreshRun(c[1], c[2], c[3], 0)]
    /\ EmptyDb
    /\ terminate_event = FALSE
    /\ repo = RepoOff
    /\ det = DetOff

RunStep(r) ==
    \/ Dispatch(r)
    \/ IngestTruncate(r)
    \/ IngestLoad(r)
    \/ InitializeAnalyzers(r)
    \/ FeatDelete(r)
    \/ FeatRead(r)
    \/ FeatChunk(r)
    \/ FeatAddr(r)
    \/ FeatInsert(r)
    \/ PatDelete(r)
    \/ PatRead(r)
    \/ PatDetect(r)
    \/ PatInsert(r)
    \/ LogAudit(r)

Next ==
    \/ \E r \in Runs : RunStep(r)
    \/ \E r \in Runs : PatDeleteFail(r)
    \/ \E r \in Runs : StepRaises(r)
    \/ SetTerminate

Spec == Init /\ [][Next]_vars

\* Two different contexts are dispatched once each and run in parallel
\* (celery_singleton admits one task per argument tuple); no command raises.
InitParallel ==
    /\ \E c1 \in {"n1"} \X WindowDays \X Dates, c2 \in Contexts :
         /\ c2 # c1
         /\ run = [r \in Runs |->
                     IF r = "r1" THEN FreshRun(c1[1], c1[2], c1[3], 1)
                     ELSE FreshRun(c2[1], c2[2], c2[3], 1)]
    /\ EmptyDb
    /\ terminate_event = FALSE
    /\ repo = RepoOff
    /\ det = DetOff

NextParallel == \E r \in Runs : RunStep(r)

SpecParallel == InitParallel /\ [][NextParallel]_vars

\* A client calls delete_partition and then insert_deduplicated_patterns on
\* tables that hold rows of earlier runs, as the storage tests do.
PatternUniverse ==
    {Pattern("cycle", {"a1", "a2", "a3"}), Pattern("layering_path", {"a1", "a2", "a3"}),
     Pattern("motif_fanin", {"a1", "a2"}), Pattern("motif_fanout", {"a1", "a2"})}

RowsOf(patterns, window_days, processing_date, version) ==
    [t \in AllPatternTables |->
        {PatternRow(p, window_days, processing_date, version) :
         p \in {q \in patterns : PATTERN_TYPE_TABLES[q.pattern_type] = t}}]

InitRepo ==
    /\ run = [r \in Runs |-> FreshRun("n1", 1, 2, 0)]
    /\ core_transfers = [n \in Networks |-> {}]
    /\ analyzers_features = [n \in Networks |-> {}]
    /\ analyzers_computation_audit = [n \in Networks |-> <<>>]
    /\ terminate_event = FALSE
    /\ det = DetOff
    /\ \E w \in WindowDays, d \in Dates, d0 \in Dates,
          P \in SUBSET PatternUniverse, P0 \in SUBSET PatternUniverse :
         /\ repo = [pc |-> "delete", window_days |-> w, processing_date |-> d,
                    patterns |-> P, pending_types |-> {}]
         /\ pattern_tables =
              [n \in Networks |-> RowsOf(P0, w, d0, <<"old", 0>>)]

\* repo.delete_partition(window_days, processing_date)
RepoDelete ==
    /\ repo.pc = "delete"
    /\ pattern_tables' =
         [pattern_tables EXCEPT !["n1"] =
            pattern_delete_partition(@, unique_tables, repo.window_days,
                                     repo.processing_date)]
    /\ repo' = [repo EXCEPT !.pc = IF repo.patterns = {} THEN "raised" ELSE "insert",
                            !.pending_types = {p.pattern_type : p \in repo.patterns}]
    /\ UNCHANGED <<run, core_transfers, analyzers_features,
                   analyzers_computation_audit, terminate_event, det>>

\* repo.insert_deduplicated_patterns(patterns, window_days, processing_date):
\* the insert of one pattern type
RepoInsert ==
    /\ repo.pc = "insert"
    /\ \E t \in repo.pending_types :
         /\ pattern_tables' =
              [pattern_tables EXCEPT !["n1"] =
                 insert_pattern_group(@, repo.patterns, t, repo.window_days,
                                      repo.processing_date, <<"new", 1>>)]
         /\ repo' = [repo EXCEPT !.pending_types = @ \ {t},
                                 !.pc = IF repo.pending_types = {t} THEN "done" ELSE "insert"]
    /\ UNCHANGED <<run, core_transfers, analyzers_features,
                   analyzers_computation_audit, terminate_event, det>>

NextRepo == RepoDelete \/ RepoInsert

SpecRepo == InitRepo /\ [][NextRepo]_vars

\* ------------------------------------------------------------------ retries
\* A worker that retries without a limit (mutant).
ShouldRetry_Always(retries) == TRUE

\* autoretry_for=(Exception,), retry_kwargs={'max_retries': 3}: the worker
\* retries the task while request.retries < max_retries
ShouldRetry(retries) == retries < max_retries

\* The worker runs the failed task again, as a whole, from its first stage.
Retry(r) ==
    /\ run[r].pc = "failed"
    /\ ShouldRetry(run[r].retries)
    /\ run' = [run EXCEPT ![r] =
                 Enter([FreshRun(run[r].network, run[r].window_days,
                                 run[r].processing_date, run[r].budget)
                          EXCEPT !.attempt = run[r].attempt + 1,
                                 !.retries = run[r].retries + 1],
                       FirstStep(StageOrder[1]))]
    /\ UnchangedDb /\ UnchangedEnv

InitRetry ==
    /\ \E c \in {"n1"} \X WindowDays \X Dates :
         run = [r \in Runs |->
                  IF r = "r1" THEN FreshRun(c[1], c[2], c[3], 1)
                  ELSE FreshRun(c[1], c[2], c[3], 0)]
    /\ EmptyDb
    /\ terminate_event = FALSE
    /\ repo = RepoOff
    /\ det = DetOff

NextRetry ==
    \/ \E r \in Runs : RunStep(r)
    \/ \E r \in Runs : StepRaises(r)
    \/ \E r \in Runs : Retry(r)

SpecRetry == InitRetry /\ [][NextRetry]_vars

\* ------------------------------------------------------ detectors on a graph
\* The pieces a graph handed to a detector is put together from: a triangle, a
\* detour of it through a4, a chord of the detour, a second triangle, its
\* reverse and a two-cycle.
DetectorPieces ==
    {{<<"a1", "a2">>, <<"a2", "a3">>, <<"a3", "a1">>},
     {<<"a3", "a4">>, <<"a4", "a1">>},
     {<<"a5", "a6">>, <<"a6", "a7">>, <<"a7", "a5">>},
     {<<"a6", "a5">>, <<"a7", "a6">>, <<"a5", "a7">>},
     {<<"a1", "a3">>},
     {<<"a5", "a6">>, <<"a6", "a5">>}}

FlowsOfEdges(E) ==
    {[from_address |-> e[1], to_address |-> e[2], tx_count |-> 1] : e \in E}

RECURSIVE ReachSet(_, _)
ReachSet(E, S) ==
    LET S2 == S \cup {e[2] : e \in {x \in E : x[1] \in S}}
    IN IF S2 = S THEN S ELSE ReachSet(E, S2)

\* nx.strongly_connected_components(G)
strongly_connected_components(flows) ==
    LET E == GraphEdges(flows)
    IN {{m \in ReachSet(E, {n}) : n \in ReachSet(E, {m})} : n \in GraphNodes(flows)}

\* The simple cycles nx.simple_cycles yields for an SCC whose length passes the
\* filter, each once, written from its smallest address.
QualifyingCycles(flows, scc) ==
    LET \* G.subgraph(scc)
        subgraph(flows0, scc0) ==
            {f \in flows0 : f.from_address \in scc0 /\ f.to_address \in scc0}
    IN
    {c \in SimpleCycles(subgraph(flows, scc)) :
        /\ Len(c) >= config.cycle_detection.min_cycle_length
        /\ Len(c) <= config.cycle_detection.max_cycle_length
        /\ \A k \in 1 .. Len(c) : AddrIndex(c[1]) <= AddrIndex(c[k])}

\* The orders an enumeration may yield the elements of Q in.
Orders(Q) ==
    {s \in [1 .. Cardinality(Q) -> Q] :
        \A k1, k2 \in 1 .. Cardinality(Q) : s[k1] = s[k2] => k1 = k2}

\* The cycle record of _detect_cycles_deduplicated / CycleDetector.detect
CycleRecord(cycle) ==
    LET pattern_hash == generate_pattern_hash("cycle", SeqToSet(cycle))
    IN [pattern_id |-> generate_pattern_id("cycle", pattern_hash),
        pattern_type |-> "cycle", pattern_hash |-> pattern_hash,
        addresses_involved |-> SeqToSet(cycle), cycle_path |-> cycle,
        detection_method |-> "cycle_detection"]

\* The record of _analyze_scc_deduplicated / NetworkDetector._analyze_scc
SccRecord(scc) ==
    LET pattern_hash == generate_pattern_hash("smurfing_network", scc)
    IN [pattern_id |-> generate_pattern_id("scc", pattern_hash),
        pattern_type |-> "smurfing_network", pattern_hash |-> pattern_hash,
        addresses_involved |-> scc, cycle_path |-> <<>>,
        detection_method |-> "scc_analysis"]

\* A membership test that never finds the id (mutant).
InPatternsById_Never(pattern_id, patterns_by_id) == FALSE

\* if pattern_id in patterns_by_id: continue
InPatternsById(pattern_id, patterns_by_id) ==
    \E q \in patterns_by_id : q.pattern_id = pattern_id

RECURSIVE ProcessCycles(_, _, _)
\* for cycle in nx.simple_cycles(scc_graph): the loop body over the cycles in
\* the order they are yielded, from cycles_found on
ProcessCycles(cycles, patterns_by_id, cycles_found) ==
    IF cycles = <<>> \/ cycles_found >= config.cycle_detection.max_cycles_per_scc
    THEN patterns_by_id
    ELSE LET rec == CycleRecord(Head(cycles))
         IN IF InPatternsById(rec.pattern_id, patterns_by_id)
            THEN ProcessCycles(Tail(cycles), patterns_by_id, cycles_found)
            ELSE ProcessCycles(Tail(cycles), patterns_by_id \cup {rec}, cycles_found + 1)

RECURSIVE SumSizes(_)
SumSizes(S) ==
    IF S = {} THEN 0
    ELSE LET x == CHOOSE y \in S : TRUE IN Cardinality(x) + SumSizes(S \ {x})

RECURSIVE SumSquares(_)
SumSquares(S) ==
    IF S = {} THEN 0
    ELSE LET x == CHOOSE y \in S : TRUE
         IN Cardinality(x) * Cardinality(x) + SumSquares(S \ {x})

\* anomaly_score >= anomaly_threshold with no labelled address: std_size > 0 and
\* |size - mean| / std / z_score_normalization >= anomaly_threshold, multiplied out
IsAnomalousScc(scc, sccs) ==
    LET n == Cardinality(sccs)
        dev == n * Cardinality(scc) - SumSizes(sccs)
        var == n * SumSquares(sccs) - SumSizes(sccs) * SumSizes(sccs)
        t == config.scc_analysis.anomaly_threshold * config.scc_analysis.z_score_normalization
    IN /\ Cardinality(scc) >= config.scc_analysis.min_scc_size
       /\ var > 0
       /\ dev * dev >= t * t * var

\* The start of a detector's loop over list(nx.strongly_connected_components(G))
EnterLoop(d, pc) ==
    [d EXCEPT !.pc = pc, !.sccs = strongly_connected_components(d.flows),
              !.patterns_by_id = {}]

\* A handler that gives up the remaining SCCs (mutant).
AfterSccException_Abort(remaining) == {}

\* except Exception as e: logger.warning(...); the for loop goes on
AfterSccException(remaining) == remaining

InitDetect ==
    LET DetectorGraphs == {UNION P : P \in SUBSET DetectorPieces}
    IN
    /\ run = [r \in Runs |-> FreshRun("n1", 1, 2, 0)]
    /\ EmptyDb
    /\ terminate_event = FALSE
    /\ repo = RepoOff
    /\ \E E \in DetectorGraphs :
         det = EnterLoop([DetOff EXCEPT !.flows = FlowsOfEdges(E), !.invocation = 1],
                         "cycles")

\* _detect_cycles_deduplicated / CycleDetector.detect: one SCC of the loop, the
\* SCCs and the cycles of an SCC taken in the order the enumeration yields them
DetectCyclesScc ==
    /\ det.pc = "cycles"
    /\ \E scc \in det.sccs :
         IF Cardinality(scc) < 2
         THEN det' = [det EXCEPT !.sccs = @ \ {scc}]
         ELSE \E order \in Orders(QualifyingCycles(det.flows, scc)) :
                det' = [det EXCEPT
                          !.sccs = @ \ {scc},
                          !.started = @ \cup {<<det.invocation, "cycles", scc>>},
                          !.patterns_by_id = ProcessCycles(order, @, 0)]
    /\ UNCHANGED <<run, repo, terminate_event>>
    /\ UnchangedDb

\* The same step when the enumeration of the SCC raises after k of its cycles
DetectCyclesSccRaises ==
    /\ det.pc = "cycles"
    /\ \E scc \in det.sccs :
         /\ Cardinality(scc) >= 2
         /\ \E order \in Orders(QualifyingCycles(det.flows, scc)) :
              \E k \in 0 .. Len(order) :
                det' = [det EXCEPT
                          !.sccs = AfterSccException(@ \ {scc}),
                          !.started = @ \cup {<<det.invocation, "cycles", scc>>},
                          !.failed = @ \cup {<<det.invocation, scc>>},
                          !.patterns_by_id = ProcessCycles(SubSeq(order, 1, k), @, 0)]
    /\ UNCHANGED <<run, repo, terminate_event>>
    /\ UnchangedDb

\* return list(patterns_by_id.values()); deduplicated_patterns.extend(...);
\* then the SCC analysis starts
DetectCyclesReturn ==
    /\ det.pc = "cycles"
    /\ det.sccs = {}
    /\ det' = EnterLoop([det EXCEPT !.patterns = @ \cup det.patterns_by_id],
                        "scc_analysis")
    /\ UNCHANGED <<run, repo, terminate_event>>
    /\ UnchangedDb

\* _analyze_scc_deduplicated / NetworkDetector._analyze_scc: one SCC of the loop
AnalyzeScc ==
    /\ det.pc = "scc_analysis"
    /\ \E scc \in det.sccs :
         LET rec == SccRecord(scc)
             emit == /\ IsAnomalousScc(scc, strongly_connected_components(det.flows))
                     /\ ~InPatternsById(rec.pattern_id, det.patterns_by_id)
         IN det' = [det EXCEPT
                      !.sccs = @ \ {scc},
                      !.started = @ \cup {<<det.invocation, "scc_analysis", scc>>},
                      !.patterns_by_id = IF emit THEN @ \cup {rec} ELSE @]
    /\ UNCHANGED <<run, repo, terminate_event>>
    /\ UnchangedDb

\* return list(patterns_by_id.values()); the caller then invokes the detectors
\* on the same graph a second time
AnalyzeSccReturn ==
    /\ det.pc = "scc_analysis"
    /\ det.sccs = {}
    /\ LET all == det.patterns \cup det.patterns_by_id
       IN det' = IF det.invocation = 1
                 THEN EnterLoop([det EXCEPT !.first_result = all, !.patterns = {},
                                            !.invocation = 2], "cycles")
                 ELSE [det EXCEPT !.pc = "returned", !.patterns = all,
                                  !.patterns_by_id = {}]
    /\ UNCHANGED <<run, repo, terminate_event>>
    /\ UnchangedDb

\* shutdown_handler while a detector is looping
DetSetTerminate ==
    /\ ~terminate_event
    /\ det.pc \in {"cycles", "scc_analysis"}
    /\ terminate_event' = TRUE
    /\ UNCHANGED <<run, repo, det>>
    /\ UnchangedDb

NextDetect ==
    \/ DetectCyclesScc
    \/ DetectCyclesSccRaises
    \/ DetectCyclesReturn
    \/ AnalyzeScc
    \/ AnalyzeSccReturn
    \/ DetSetTerminate

SpecDetect == InitDetect /\ [][NextDetect]_vars

\* ------------------------------------------------------------ graph builder

\* nx.DiGraph.add_edge: adds the edge, or updates the attributes of the edge
\* that is already there
add_edge(G, row) ==
    LET e == <<row.from_address, row.to_address>>
    IN [x \in DOMAIN G \cup {e} |->
          IF x = e THEN [tx_count |-> row.tx_count] ELSE G[x]]

RECURSIVE build_graph_from_flows_data(_)
\* _build_graph_from_flows_data: for flow in flows: G.add_edge(...)
build_graph_from_flows_data(flows) ==
    IF flows = <<>> THEN << >>
    ELSE add_edge(build_graph_from_flows_data(SubSeq(flows, 1, Len(flows) - 1)),
                  flows[Len(flows)])

InitBuild ==
    LET \* The flow rows handed to the builder: a list of at most MaxRows rows, in
        \* which an ordered pair may occur more than once.
        BuilderRows ==
            {[from_address |-> e[1], to_address |-> e[2], tx_count |-> n] :
                <<e, n>> \in {x \in (Addresses \X Addresses) : x[1] # x[2]} \X {1, 2}}
        BuilderInputs == UNION {[1 .. n -> BuilderRows] : n \in 0 .. MaxRows}
    IN
    /\ run = [r \in Runs |-> FreshRun("n1", 1, 2, 0)]
    /\ EmptyDb
    /\ terminate_event = FALSE
    /\ repo = RepoOff
    /\ \E flows \in BuilderInputs :
         det = [pc |-> "build", flows |-> flows, G |-> << >>]

\* _build_graph_from_flows_data returns the graph
BuildGraph ==
    /\ det.pc = "build"
    /\ det.flows # <<>>
    /\ det' = [det EXCEPT !.pc = "built", !.G = build_graph_from_flows_data(det.flows)]
    /\ UNCHANGED <<run, terminate_event, repo>> /\ UnchangedDb

\* _build_graph_from_flows_data, lines 132-133: if not flows: raise ValueError
BuildGraphRaises ==
    /\ det.pc = "build"
    /\ det.flows = <<>>
    /\ det' = [det EXCEPT !.pc = "raised"]
    /\ UNCHANGED <<run, terminate_event, repo>> /\ UnchangedDb

NextBuild == BuildGraph \/ BuildGraphRaises

SpecBuild == InitBuild /\ [][NextBuild]_vars

\* -------------------------------------------------------- proximity to risk

RECURSIVE Within(_, _, _)
\* the nodes at most k undirected steps away from source
Within(flows, source, k) ==
    LET \* G.to_undirected(): the neighbours of a node, whatever the direction of the edge
        Neighbours(flows0, S) ==
            {e[2] : e \in {x \in GraphEdges(flows0) : x[1] \in S}}
            \cup {e[1] : e \in {x \in GraphEdges(flows0) : x[2] \in S}}
    IN
    IF k = 0 THEN {source}
    ELSE LET inner == Within(flows, source, k - 1)
         IN inner \cup Neighbours(flows, inner)

\* nx.single_source_shortest_path_length(G.to_undirected(), source, cutoff):
\* the nodes within cutoff steps, each with its distance
single_source_shortest_path_length(flows, source, cutoff) ==
    [a \in Within(flows, source, cutoff) |->
        CHOOSE d \in 0 .. cutoff :
            /\ a \in Within(flows, source, d)
            /\ \A k \in 0 .. cutoff : a \in Within(flows, source, k) => d <= k]

ProximityRecord(risk_addr, address, distance) ==
    LET pattern_hash == generate_pattern_hash("proximity_risk", {risk_addr, address})
    IN [pattern_id |-> generate_pattern_id("proximity_risk", pattern_hash),
        pattern_type |-> "proximity_risk",
        pattern_hash |-> pattern_hash,
        addresses_involved |-> <<risk_addr, address>>,
        risk_source_address |-> risk_addr,
        distance_to_risk |-> distance]

\* _analyze_proximity_deduplicated, the body of the loop for one risk address:
\* the addresses whose pattern_id is not yet in patterns_by_id get a record
ProximityOfRisk(flows, risk_addr, patterns_by_id) ==
    LET distances == single_source_shortest_path_length(
                         flows, risk_addr, config.proximity_analysis.max_distance)
    IN patterns_by_id \cup
       {ProximityRecord(risk_addr, address, distances[address]) :
        address \in {a \in DOMAIN distances :
                       /\ a # risk_addr
                       /\ distances[a] # 0
                       /\ ~InPatternsById(
                              ProximityRecord(risk_addr, a, distances[a]).pattern_id,
                              patterns_by_id)}}

InitProximity ==
    LET ProximityEdges ==
            {<<"a1", "a2">>, <<"a2", "a3">>, <<"a3", "a4">>, <<"a4", "a1">>, <<"a3", "a1">>}
    IN
    /\ run = [r \in Runs |-> FreshRun("n1", 1, 2, 0)]
    /\ EmptyDb
    /\ terminate_event = FALSE
    /\ repo = RepoOff
    /\ \E E \in SUBSET ProximityEdges :
         /\ E # {}
         /\ \E risk_addresses \in SUBSET GraphNodes(FlowsOfEdges(E)) :
              det = [pc |-> "proximity", flows |-> FlowsOfEdges(E),
                     risk_addresses |-> risk_addresses, pending |-> risk_addresses,
                     patterns_by_id |-> {}]

\* one iteration of: for risk_addr in risk_addresses
ProximityRisk ==
    /\ det.pc = "proximity"
    /\ \E risk_addr \in det.pending :
         det' = [det EXCEPT !.pending = @ \ {risk_addr},
                            !.patterns_by_id = ProximityOfRisk(det.flows, risk_addr, @)]
    /\ UNCHANGED <<run, terminate_event, repo>> /\ UnchangedDb

\* return [] without risk addresses, return list(patterns_by_id.values()) after the loop
ProximityReturn ==
    /\ det.pc = "proximity"
    /\ det.pending = {}
    /\ det' = [det EXCEPT !.pc = "returned"]
    /\ UNCHANGED <<run, terminate_event, repo>> /\ UnchangedDb

NextProximity == ProximityRisk \/ ProximityReturn

SpecProximity == InitProximity /\ [][NextProximity]_vars

\* ------------------------------------------------------------ layering paths

\* nx.all_simple_paths(G, source, target, cutoff): the node sequences without
\* repetition from source to target with at most cutoff edges
all_simple_paths(flows, source, target, cutoff) ==
    LET N == GraphNodes(flows)
        E == GraphEdges(flows)
    IN UNION {{p \in [1 .. n -> N] :
                 /\ p[1] = source
                 /\ p[n] = target
                 /\ \A k1, k2 \in 1 .. n : p[k1] = p[k2] => k1 = k2
                 /\ \A k \in 1 .. n - 1 : <<p[k], p[k + 1]>> \in E} :
              n \in 2 .. cutoff + 1}

LayeringRecord(path, source, target) ==
    LET \* ['source'] + ['intermediary'] * (len(path) - 2) + ['destination']
        LayeringRoles(path0) ==
            [k \in 1 .. Len(path0) |->
                IF k = 1 THEN "source"
                ELSE IF k = Len(path0) THEN "destination" ELSE "intermediary"]
        sorted_path == SortedSeq(SeqToSet(path))
        pattern_hash == generate_pattern_hash("layering_path", SeqToSet(path))
    IN [pattern_id |-> generate_pattern_id("layering_path", pattern_hash),
        pattern_type |-> "layering_path",
        pattern_hash |-> pattern_hash,
        addresses_involved |-> sorted_path,
        address_roles |-> LayeringRoles(path),
        layering_path |-> path,
        source_address |-> source,
        destination_address |-> target]

\* A loop over the paths that never sees the limit (mutant).
CapReached_Never(paths_checked) == FALSE

\* paths_checked >= max_paths_to_check
CapReached(paths_checked) ==
    paths_checked >= config.path_analysis.max_paths_to_check

RECURSIVE ProcessPaths(_, _, _, _)
\* for path in paths: the loop body over the paths of one (source, target) pair
\* in the order they are yielded; st holds patterns_by_id and paths_checked
ProcessPaths(paths, source, target, st) ==
    LET \* _is_layering_pattern: every flow of the ledger moves the same amount, above
        \* layering_min_volume, so the variation of the volumes along a path is 0
        is_layering_pattern(path0) == Len(path0) >= 3
    IN
    IF paths = <<>> THEN st
    ELSE LET path == Head(paths)
             counted == [st EXCEPT !.paths_checked = @ + 1]
             rec == LayeringRecord(path, source, target)
         IN IF CapReached(counted.paths_checked) THEN counted
            ELSE IF \/ Len(path) < config.path_analysis.min_path_length
                    \/ ~is_layering_pattern(path)
                    \/ InPatternsById(rec.pattern_id, st.patterns_by_id)
                 THEN ProcessPaths(Tail(paths), source, target, counted)
                 ELSE ProcessPaths(Tail(paths), source, target,
                                   [counted EXCEPT !.patterns_by_id = @ \cup {rec}])

\* high_volume_nodes[:max_source_nodes] and high_volume_nodes[:max_target_nodes]
LayeringSources(d) == Slice(d.high_volume_nodes, 0, config.path_analysis.max_source_nodes)
LayeringTargets(d) == Slice(d.high_volume_nodes, 0, config.path_analysis.max_target_nodes)

\* the next position of the two nested for loops
NextPair(d) ==
    IF d.ti < Len(LayeringTargets(d))
    THEN [d EXCEPT !.ti = @ + 1]
    ELSE [d EXCEPT !.si = @ + 1, !.ti = 1]

InitLayering ==
    LET LayeringEdges ==
            {<<"a2", "a1">>, <<"a1", "a3">>, <<"a1", "a2">>, <<"a2", "a3">>, <<"a3", "a4">>}
    IN
    /\ run = [r \in Runs |-> FreshRun("n1", 1, 2, 0)]
    /\ EmptyDb
    /\ terminate_event = FALSE
    /\ repo = RepoOff
    /\ \E E \in SUBSET LayeringEdges :
         /\ E # {}
         /\ \E nodes \in Orders(GraphNodes(FlowsOfEdges(E))) :
              det = [pc |-> "layering", flows |-> FlowsOfEdges(E),
                     high_volume_nodes |-> nodes, si |-> 1, ti |-> 1,
                     paths_checked |-> 0, patterns_by_id |-> {}, enumerated |-> {}]

\* for target in ...: if source == target or paths_checked >= max_paths_to_check: continue
LayeringSkip ==
    /\ det.pc = "layering"
    /\ Len(det.high_volume_nodes) >= 2
    /\ det.si <= Len(LayeringSources(det))
    /\ ~(det.ti = 1 /\ CapReached(det.paths_checked))
    /\ \/ LayeringSources(det)[det.si] = LayeringTargets(det)[det.ti]
       \/ CapReached(det.paths_checked)
    /\ det' = NextPair(det)
    /\ UNCHANGED <<run, terminate_event, repo>> /\ UnchangedDb

\* the paths of one (source, target) pair are enumerated
LayeringPair ==
    /\ det.pc = "layering"
    /\ Len(det.high_volume_nodes) >= 2
    /\ det.si <= Len(LayeringSources(det))
    /\ ~CapReached(det.paths_checked)
    /\ LET source == LayeringSources(det)[det.si]
           target == LayeringTargets(det)[det.ti]
       IN /\ source # target
          /\ \E paths \in Orders(all_simple_paths(det.flows, source, target,
                                                  config.path_analysis.max_path_length)) :
               LET st == ProcessPaths(paths, source, target,
                                      [patterns_by_id |-> det.patterns_by_id,
                                       paths_checked |-> det.paths_checked])
               IN det' = NextPair([det EXCEPT
                                     !.patterns_by_id = st.patterns_by_id,
                                     !.paths_checked = st.paths_checked,
                                     !.enumerated = @ \cup {<<source, target>>}])
    /\ UNCHANGED <<run, terminate_event, repo>> /\ UnchangedDb

\* the same step when the enumeration raises after k of the paths:
\* except Exception: logger.warning(...); continue
LayeringPairRaises ==
    /\ det.pc = "layering"
    /\ Len(det.high_volume_nodes) >= 2
    /\ det.si <= Len(LayeringSources(det))
    /\ ~CapReached(det.paths_checked)
    /\ LET source == LayeringSources(det)[det.si]
           target == LayeringTargets(det)[det.ti]
       IN /\ source # target
          /\ \E paths \in Orders(all_simple_paths(det.flows, source, target,
                                                  config.path_analysis.max_path_length)) :
               \E k \in 0 .. Len(paths) :
                 LET st == ProcessPaths(SubSeq(paths, 1, k), source, target,
                                        [patterns_by_id |-> det.patterns_by_id,
                                         paths_checked |-> det.paths_checked])
                 IN det' = NextPair([det EXCEPT
                                       !.patterns_by_id = st.patterns_by_id,
                                       !.paths_checked = st.paths_checked,
                                       !.enumerated = @ \cup {<<source, target>>}])
    /\ UNCHANGED <<run, terminate_event, repo>> /\ UnchangedDb

\* return [] with fewer than two high-volume nodes; the break of the loop over
\* the sources; return list(patterns_by_id.values()) after the loops
LayeringReturn ==
    /\ det.pc = "layering"
    /\ \/ Len(det.high_volume_nodes) < 2
       \/ det.si > Len(LayeringSources(det))
       \/ (det.ti = 1 /\ CapReached(det.paths_checked))
    /\ det' = [det EXCEPT !.pc = "returned"]
    /\ UNCHANGED <<run, terminate_event, repo>> /\ UnchangedDb

NextLayering ==
    \/ LayeringSkip
    \/ LayeringPair
    \/ LayeringPairRaises
    \/ LayeringReturn

SpecLayering == InitLayering /\ [][NextLayering]_vars

\* -------------------------------------------------------- typology detector
\* typology_settings.json (values chosen for the model; scores in tenths)
typology_config ==
    [structuring |-> [min_score |-> 5],
     clustering |-> [strategies |-> [same_entity |-> [enabled |-> TRUE, min_alerts |-> 2]]]]

\* The rows of analyzers_features: at most one row per partition and address.
\* The features of a row other than structuring_score are fixed at values that
\* pass the other tests of _detect_structuring and fail the other detections.
TypFeatureTables ==
    LET TypPartitions == {<<1, 2>>, <<1, 3>>}
        TypAddresses == {"a1", "a2"}
    IN
    {{[window_days |-> x[1][1], processing_date |-> x[1][2], address |-> x[2],
       structuring_score |-> f[x]] : x \in {y \in DOMAIN f : f[y] # -1}} :
     f \in [TypPartitions \X TypAddresses -> {-1, 0, 10}]}

\* The rows the view analyzers_pattern_detections can hold.
TypPatternRows ==
    {[window_days |-> 1, processing_date |-> 2, pattern_type |-> "cycle",
      pattern_id |-> Pattern("cycle", {"a1", "a2", "a3"}).pattern_id,
      addresses_involved |-> {"a1", "a2", "a3"},
      confidence_score |-> 8, severity_score |-> 6, risk_score |-> 7],
     [window_days |-> 1, processing_date |-> 2, pattern_type |-> "cycle",
      pattern_id |-> Pattern("cycle", {"a1", "a3", "a4"}).pattern_id,
      addresses_involved |-> {"a1", "a3", "a4"},
      confidence_score |-> 8, severity_score |-> 6, risk_score |-> 7],
     [window_days |-> 1, processing_date |-> 2, pattern_type |-> "motif_fanin",
      pattern_id |-> Pattern("motif_fanin", {"a2", "a4"}).pattern_id,
      addresses_involved |-> {"a2", "a4"},
      confidence_score |-> 4, severity_score |-> 3, risk_score |-> 2],
     [window_days |-> 1, processing_date |-> 3, pattern_type |-> "cycle",
      pattern_id |-> Pattern("cycle", {"a2", "a3", "a4"}).pattern_id,
      addresses_involved |-> {"a2", "a3", "a4"},
      confidence_score |-> 8, severity_score |-> 6, risk_score |-> 7]}

\* FeatureRepository.get_addresses_comprehensive_data: SELECT * FROM the
\* features table, without a WHERE clause
get_addresses_comprehensive_data(features) == features

\* StructuralPatternRepository.get_high_risk_deduplicated_patterns: the rows of
\* the partition; min_risk_score is not part of the query
get_high_risk_deduplicated_patterns(view, window_days, processing_date, min_risk_score) ==
    {row \in view : /\ row.window_days = window_days
                    /\ row.processing_date = processing_date}

\* _create_alert: the id is uuid5 of "address-typology-processing_date", taken as
\* injective on the three; origin is the row the alert was made from
create_alert(address, typology_type, confidence_score, processing_date, origin) ==
    [alert_id |-> <<address, typology_type, processing_date>>,
     address |-> address, typology_type |-> typology_type,
     confidence_score |-> confidence_score, origin |-> origin]

\* _detect_structuring
detect_structuring(row, processing_date) ==
    IF row.structuring_score > typology_config.structuring.min_score
    THEN {create_alert(row.address, "STRUCTURING", row.structuring_score,
                       processing_date, row)}
    ELSE {}

\* _create_alert_from_structural_pattern: one alert per involved address
create_alert_from_structural_pattern(pattern, processing_date) ==
    LET \* typology_mapping of _create_alert_from_structural_pattern
        typology_mapping ==
            [cycle |-> "CYCLE_DETECTION", layering_path |-> "LAYERING_PATH",
             smurfing_network |-> "SMURFING_NETWORK", proximity_risk |-> "PROXIMITY_RISK",
             motif_fanin |-> "MOTIF_FANIN", motif_fanout |-> "MOTIF_FANOUT"]
        Max3(a, b, c) ==
            IF a >= b /\ a >= c THEN a ELSE IF b >= c THEN b ELSE c
    IN
    IF pattern.pattern_type \notin DOMAIN typology_mapping THEN {}
    ELSE {create_alert(address, typology_mapping[pattern.pattern_type],
                       Max3(pattern.confidence_score, pattern.risk_score,
                            pattern.severity_score),
                       processing_date, pattern) :
          address \in pattern.addresses_involved}

\* _detect_structural_patterns
detect_structural_patterns(view, window_days, processing_date) ==
    UNION {create_alert_from_structural_pattern(pattern, processing_date) :
           pattern \in get_high_risk_deduplicated_patterns(
                           view, window_days, processing_date, 5)}

\* _detect_batch_typologies
detect_batch_typologies(comprehensive_data, view, window_days, processing_date) ==
    UNION {detect_structuring(row, processing_date) : row \in comprehensive_data}
    \cup detect_structural_patterns(view, window_days, processing_date)

RECURSIVE AlertIdList(_)
\* [a['alert_id'] for a in address_alerts]
AlertIdList(address_alerts) ==
    IF address_alerts = {} THEN <<>>
    ELSE LET a == CHOOSE x \in address_alerts : TRUE
         IN <<a.alert_id>> \o AlertIdList(address_alerts \ {a})

\* _cluster_by_same_entity
cluster_by_same_entity(alerts, processing_date) ==
    LET \* 'total_alerts': len(address_alerts)
        ClusterTotalAlerts(address_alerts) == Cardinality(address_alerts)
        min_alerts == typology_config.clustering.strategies.same_entity.min_alerts
        by_address(address) == {a \in alerts : a.address = address}
    IN {[cluster_id |-> <<"cluster_same_entity", address, processing_date>>,
         cluster_type |-> "same_entity",
         addresses_involved |-> {address},
         related_alert_ids |-> AlertIdList(by_address(address)),
         total_alerts |-> ClusterTotalAlerts(by_address(address))] :
        address \in {x \in {a.address : a \in alerts} :
                       Cardinality(by_address(x)) >= min_alerts}}

\* _create_alert_clusters
create_alert_clusters(alerts, processing_date) ==
    IF typology_config.clustering.strategies.same_entity.enabled
    THEN cluster_by_same_entity(alerts, processing_date)
    ELSE {}

InitTypology ==
    /\ run = [r \in Runs |-> FreshRun("n1", 1, 2, 0)]
    /\ EmptyDb
    /\ terminate_event = FALSE
    /\ repo = RepoOff
    /\ \E features \in TypFeatureTables, view \in SUBSET TypPatternRows :
         det = [pc |-> "read", window_days |-> 1, processing_date |-> 2,
                features |-> features, view |-> view,
                comprehensive_data |-> {}, all_alerts |-> {},
                alerts_table |-> {}, clusters_table |-> {}]

\* detect_typologies: comprehensive_data = get_addresses_comprehensive_data()
TypRead ==
    /\ det.pc = "read"
    /\ det.features # {}
    /\ det' = [det EXCEPT !.pc = "detect",
                          !.comprehensive_data = get_addresses_comprehensive_data(det.features)]
    /\ UNCHANGED <<run, terminate_event, repo>> /\ UnchangedDb

\* get_addresses_comprehensive_data: raise ValueError("No comprehensive data found")
TypReadRaises ==
    /\ det.pc = "read"
    /\ det.features = {}
    /\ det' = [det EXCEPT !.pc = "raised"]
    /\ UNCHANGED <<run, terminate_event, repo>> /\ UnchangedDb

\* detect_typologies: batch_alerts = _detect_batch_typologies(comprehensive_data)
TypDetect ==
    /\ det.pc = "detect"
    /\ LET batch_alerts == detect_batch_typologies(det.comprehensive_data, det.view,
                                                   det.window_days, det.processing_date)
       IN det' = [det EXCEPT !.pc = IF batch_alerts = {} THEN "done" ELSE "insert",
                             !.all_alerts = batch_alerts]
    /\ UNCHANGED <<run, terminate_event, repo>> /\ UnchangedDb

\* detect_typologies: alerts_repository.insert_alerts(alert_dicts, ...)
TypInsertAlerts ==
    /\ det.pc = "insert"
    /\ det' = [det EXCEPT !.pc = "cluster", !.alerts_table = @ \cup det.all_alerts]
    /\ UNCHANGED <<run, terminate_event, repo>> /\ UnchangedDb

\* detect_typologies: clusters = _create_alert_clusters(alert_dicts); create_cluster
TypCreateClusters ==
    /\ det.pc = "cluster"
    /\ det' = [det EXCEPT !.pc = "done",
                          !.clusters_table =
                              @ \cup create_alert_clusters(det.all_alerts, det.processing_date)]
    /\ UNCHANGED <<run, terminate_event, repo>> /\ UnchangedDb

NextTypology ==
    \/ TypRead
    \/ TypReadRaises
    \/ TypDetect
    \/ TypInsertAlerts
    \/ TypCreateClusters

SpecTypology == InitTypology /\ [][NextTypology]_vars

\* --------------------------------------------------------------- audit clock
\* DailyAnalyticsPipelineTask.execute_task with a wall clock in seconds.  The
\* four stage tasks are reduced to the time they take; det holds the clock
\* (now), the time execute_task was entered, the time the last stage
\* returned, the audit context and the audit table.

\* the stage tasks called before the audit, in the order of execute_task
StagesBeforeAudit == <<"ingest", "initialize", "features", "patterns">>

\* ComputationAuditRepository.log_completion with its time columns
log_completion_at(table, window_days, processing_date, created_at, end_at) ==
    LET \* duration_seconds = int((end_at - created_at).total_seconds())
        duration_seconds(created_at0, end_at0) == end_at0 - created_at0
    IN
    Append(table, [window_days |-> window_days,
                   processing_date |-> processing_date,
                   created_at |-> created_at,
                   end_at |-> end_at,
                   duration_seconds |-> duration_seconds(created_at, end_at)])

InitAudit ==
    /\ run = [r \in Runs |-> FreshRun("n1", 1, 2, 0)]
    /\ EmptyDb
    /\ terminate_event = FALSE
    /\ repo = RepoOff
    /\ \E t \in 0 .. MaxStageSeconds, window_days \in WindowDays,
          processing_date \in Dates :
         det = [pc |-> "stage", i |-> 1, now |-> t, entered_at |-> t,
                stages_returned_at |-> t, pipeline_started_at |-> -1,
                window_days |-> window_days, processing_date |-> processing_date,
                audit |-> <<>>]

\* X().execute_task(context) of one of the four stages, taking d seconds
AuditStage ==
    /\ det.pc = "stage"
    /\ det.i <= Len(StagesBeforeAudit)
    /\ \E d \in 0 .. MaxStageSeconds :
         det' = [det EXCEPT !.i = @ + 1, !.now = @ + d,
                            !.stages_returned_at = det.now + d]
    /\ UNCHANGED <<run, terminate_event, repo>> /\ UnchangedDb

\* audit_context = BaseTaskContext(...); audit_context.pipeline_started_at = datetime.now()
AuditContext ==
    /\ det.pc = "stage"
    /\ det.i > Len(StagesBeforeAudit)
    /\ det' = [det EXCEPT !.pc = "log", !.pipeline_started_at = det.now]
    /\ UNCHANGED <<run, terminate_event, repo>> /\ UnchangedDb

\* LogComputationAuditTask.execute_task: log_completion(window_days,
\* processing_date, created_at=datetime.now(), end_at=datetime.now())
AuditLog ==
    LET \* datetime.now() - datetime.now() of two consecutive calls: the clock may tick
        ClockTicks == {0, 1}
    IN
    /\ det.pc = "log"
    /\ \E tick \in ClockTicks :
         det' = [det EXCEPT !.pc = "success", !.now = @ + tick,
                            !.audit = log_completion_at(@, det.window_days,
                                          det.processing_date, det.now, det.now + tick)]
    /\ UNCHANGED <<run, terminate_event, repo>> /\ UnchangedDb

NextAudit == AuditStage \/ AuditContext \/ AuditLog

SpecAudit == InitAudit /\ [][NextAudit]_vars

\* ----------------------------------------------------------------- properties

AuditRowsOf(r) ==
    {k \in 1 .. Len(analyzers_computation_audit[run[r].network]) :
        analyzers_computation_audit[run[r].network][k] =
            [window_days |-> run[r].window_days,
             processing_date |-> run[r].processing_date, version |-> Version(r)]}

FeatureRowsOf(r) ==
    {row \in analyzers_features[run[r].network] : row.version = Version(r)}

PatternRowsOf(r) ==
    UNION {{row \in pattern_tables[run[r].network][t] : row.version = Version(r)} :
           t \in AllPatternTables}

\* C1: when a stage of a run raises, the run ends there: the error leaves
\* execute_task, no later stage is entered and no audit row is written for the run.
C1_StageFatal ==
    LET LastStage(r0) == run[r0].stages[Len(run[r0].stages)]
    IN
    \A r \in Runs :
        run[r].error_stage # "none" =>
            /\ run[r].pc = "failed"
            /\ LastStage(r) = run[r].error_stage
            /\ AuditRowsOf(r) = {}

C1_Witness ==
    \E r \in Runs : /\ run[r].pc = "failed"
                    /\ run[r].error_stage = "features"
                    /\ run[r].stages = <<"ingest", "initialize", "features">>

\* C2: a run that completed successfully has written exactly one audit row for
\* its (window_days, processing_date), and no run ever has more than one.
C2_OneAuditRow ==
    \A r \in Runs :
        /\ run[r].pc = "success" => Cardinality(AuditRowsOf(r)) = 1
        /\ Cardinality(AuditRowsOf(r)) <= 1

C2_Witness ==
    \E r \in Runs : run[r].pc = "success" /\ run[r].attempt = 2

C4_TypologyStage ==
    \A r \in Runs :
        run[r].pc = "success" =>
            \E k \in 1 .. Len(run[r].stages) - 2 :
                /\ run[r].stages[k] = "patterns"
                /\ run[r].stages[k + 1] = "typologies"
                /\ run[r].stages[k + 2] = "audit"

\* C5: in a structural-pattern run the partition delete has been issued on every
\* pattern table before the flows are read, before a detector runs and before
\* any pattern row of the run is inserted.
C5_DeleteFirst ==
    \A r \in Runs :
        (run[r].pc \in {"pat_read", "pat_detect", "pat_insert"} \/ PatternRowsOf(r) # {})
            => run[r].tables_deleted = AllPatternTables

C5_Witness ==
    \E r \in Runs : /\ run[r].pc = "pat_insert"
                    /\ PatternRowsOf(r) # {}
                    /\ run[r].attempt = 2

\* C6: re-running a stage with the same inputs leaves the records one run
\* leaves: once the feature (pattern) stage of an attempt has completed, no
\* feature (pattern) row of an earlier attempt of the same context is left.
C6_Idempotent ==
    LET PatternRowsOfRun(r0) ==
            UNION {{row \in pattern_tables[run[r0].network][t] : row.version[1] = r0} :
                   t \in AllPatternTables}
        \* Rows that any attempt of run r wrote.
        FeatureRowsOfRun(r0) ==
            {row \in analyzers_features[run[r0].network] : row.version[1] = r0}
    IN
    \A r \in Runs :
        /\ (StageOfStep(run[r].pc) \in {"patterns", "audit"} \/ run[r].pc = "success")
               => FeatureRowsOfRun(r) = FeatureRowsOf(r)
        /\ run[r].pc \in {"audit", "success"}
               => PatternRowsOfRun(r) = PatternRowsOf(r)

\* C7: a reader never sees part of a stage's output: the feature rows of an
\* attempt are none, or one for every address of the window; its pattern rows
\* are none, or one for every detected pattern.
C7_AtomicWrites ==
    LET \* The records a stage of a run over (window_days, processing_date) writes
        \* when it completes.
        AddressesOfWindow(window_days, processing_date) ==
            UNION {{t.from_address, t.to_address} : t \in extract(window_days, processing_date)}
        Active(r0) == run[r0].attempt > 0
    IN
    \A r \in Runs :
        Active(r) =>
            /\ \/ FeatureRowsOf(r) = {}
               \/ {row.feature.address : row \in FeatureRowsOf(r)}
                     = AddressesOfWindow(run[r].window_days, run[r].processing_date)
            /\ run[r].pc = "pat_insert"
                  => \/ PatternRowsOf(r) = {}
                     \/ {row.pattern_id : row \in PatternRowsOf(r)}
                           = {q.pattern_id : q \in run[r].patterns}

\* The table each pattern type is specified to be stored in.
SpecifiedTable(pattern_type) ==
    CASE pattern_type = "cycle" -> "analyzers_patterns_cycle"
      [] pattern_type = "layering_path" -> "analyzers_patterns_layering"
      [] pattern_type = "smurfing_network" -> "analyzers_patterns_network"
      [] pattern_type = "proximity_risk" -> "analyzers_patterns_proximity"
      [] pattern_type \in {"motif_fanin", "motif_fanout"} -> "analyzers_patterns_motif"
      [] pattern_type = "temporal_burst" -> "analyzers_patterns_burst"
      [] pattern_type = "threshold_evasion" -> "analyzers_patterns_threshold"

AloneFeatures(window_days, processing_date) ==
    LET tw == calculate_time_window(window_days, processing_date)
        table == load_directory({}, extract(window_days, processing_date), <<"alone", 1>>)
        flows == get_windowed_flows_from_transfers(table, tw[1], tw[2])
    IN {compute_features(a, flows,
                         get_bulk_address_amount_moments(table, <<a>>, tw[1], tw[2])) :
        a \in GraphNodes(flows)}

\* C9: a run that executes in parallel with a run of another context writes the
\* records it writes when it executes alone, under every interleaving.
C9_Independent ==
    \A r \in Runs :
        (run[r].pc = "success" /\ \A q \in Runs : ~run[q].trunc_skipped)
            => {row.feature : row \in FeatureRowsOf(r)}
                  = AloneFeatures(run[r].window_days, run[r].processing_date)

\* C10: feature building is never preempted inside a chunk: whenever the
\* address loop of a chunk is not executing, every address of every chunk that
\* was started has its features computed.
C10_NoMidChunkPreemption ==
    \A r \in Runs :
        run[r].pc \in {"feat_chunk", "feat_insert"} =>
            \A i \in run[r].chunks_started :
                \A a \in SeqToSet(Slice(run[r].addresses, i, chunk_size)) :
                    \E k \in 1 .. Len(run[r].all_features_list) :
                        run[r].all_features_list[k].address = a

\* C11: when the terminate flag is set during the feature stage, the step that
\* ends analyze_address_features returns; it does not raise.
C11_CleanExit ==
    [][\A r \in Runs :
          (terminate_event /\ run[r].pc = "feat_insert" /\ FeatInsert(r))
              => run'[r].pc # "failed"]_vars

\* C12: once the terminate flag is set, structural-pattern detection starts
\* work on no further SCC.
C12_PolledBetweenSccs ==
    [][terminate_event => det'.started = det.started]_vars

\* C13: after the ingest of a run has completed, core_transfers holds exactly the
\* batch that ingest loaded, with no row of an earlier ingest.
C13_IngestIdempotent ==
    \A r \in Runs :
        (run[r].ingest_loaded /\ StageOfStep(run[r].pc) # "ingest")
            => core_transfers[run[r].network]
                  = load_directory({}, extract(run[r].window_days, run[r].processing_date),
                                   Version(r))

\* C14: every pattern record a detector emits has pattern_hash = hash of its own
\* pattern_type and its sorted addresses, and pattern_id = pattern_type + "_" +
\* pattern_hash.
C14_PatternIdentity ==
    \A q \in det.patterns \cup det.patterns_by_id :
        /\ q.pattern_hash = generate_pattern_hash(q.pattern_type, q.addresses_involved)
        /\ q.pattern_id = generate_pattern_id(q.pattern_type, q.pattern_hash)

C16_OrderIndependent ==
    (det.pc = "returned" /\ det.failed = {})
        => {q.pattern_id : q \in det.first_result} = {q.pattern_id : q \in det.patterns}

\* C17: when the window of a run holds no flows, the feature stage and the
\* structural-pattern stage raise at the read of the flows and the run ends as
\* failed in that stage, without going on to compute or write anything.
C17_EmptyWindowFatal ==
    [][\A r \in Runs :
          (/\ get_windowed_flows_from_transfers(
                  core_transfers[run[r].network], TimeWindow(r)[1], TimeWindow(r)[2]) = {}
           /\ (FeatRead(r) \/ PatRead(r)))
              => /\ run'[r].pc = "failed"
                 /\ run'[r].error_stage = StageOfStep(run[r].pc)
                 /\ UNCHANGED <<analyzers_features, pattern_tables,
                                analyzers_computation_audit>>]_vars

\* A run whose features were computed, whose window was then emptied by the
\* ingest of another context, and which failed in the pattern stage.
C17_Witness ==
    \E r \in Runs :
        /\ run[r].pc = "failed"
        /\ run[r].error_stage = "patterns"
        /\ run[r].stages = <<"ingest", "initialize", "features", "patterns">>
        /\ get_windowed_flows_from_transfers(
               core_transfers[run[r].network], TimeWindow(r)[1], TimeWindow(r)[2]) = {}

\* C18: when the same ordered (from, to) pair occurs in two of the flow rows,
\* the graph builder does not return a graph.
C18_DuplicateFlowRejected ==
    LET \* The same ordered pair occurs in two rows of the list.
        HasDuplicateFlow(flows) ==
            \E k1, k2 \in 1 .. Len(flows) :
                /\ k1 # k2
                /\ flows[k1].from_address = flows[k2].from_address
                /\ flows[k1].to_address = flows[k2].to_address
    IN
    (det.pc = "built") => ~HasDuplicateFlow(det.flows)

C20_EveryDetectorRuns ==
    \A r \in Runs :
        run[r].pc = "audit" =>
            \A q \in ThresholdDetector_detect(
                        get_windowed_flows_from_transfers(
                            core_transfers[run[r].network], TimeWindow(r)[1], TimeWindow(r)[2])) :
                \E row \in PatternRowsOf(r) : row.pattern_id = q.pattern_id

\* C21: the detectors read their settings through the override of the run's
\* network: the cycle patterns a run has detected are those that the length
\* limits of its network's override, where present, let through.
C21_NetworkOverride ==
    \A r \in Runs :
        run[r].pc = "pat_insert" =>
            {q \in run[r].patterns : q.pattern_type = "cycle"}
                = CyclePatterns(run[r].windowed_flows,
                      get_config_value(run[r].network, "cycle_detection", "min_cycle_length"),
                      get_config_value(run[r].network, "cycle_detection", "max_cycle_length"))

\* C22: the typology detector of a partition takes its input from that
\* partition only: every alert it produces was made from a feature row or a
\* pattern row of the partition (window_days, processing_date) of the run.
C22_SamePartitionInput ==
    \A a \in det.all_alerts \cup det.alerts_table :
        /\ a.origin.window_days = det.window_days
        /\ a.origin.processing_date = det.processing_date

\* C23: in every same-entity cluster, total_alerts and the length of
\* related_alert_ids both equal the number of distinct (address, typology)
\* pairs among the alerts of the cluster's address; stated for inputs that lie
\* in the partition of the run.
C23_ClusterCounts ==
    (\A row \in det.features \cup det.view :
        row.window_days = det.window_days /\ row.processing_date = det.processing_date)
    => \A c \in det.clusters_table :
          LET pairs == {<<a.address, a.typology_type>> :
                        a \in {x \in det.alerts_table : x.address \in c.addresses_involved}}
          IN /\ c.total_alerts = Len(c.related_alert_ids)
             /\ c.total_alerts = Cardinality(pairs)

\* C24: no alert is made from a structural pattern whose risk_score is below
\* 0.5 (5 tenths).
C24_HighRiskOnly ==
    \A a \in det.all_alerts \cup det.alerts_table :
        "risk_score" \in DOMAIN a.origin => a.origin.risk_score >= 5

\* C25: for every risk source and every other address within max_distance
\* undirected steps of it, the proximity output holds exactly one pattern with
\* that risk source, addresses_involved = [risk, address] and the distance.
C25_EveryRiskPair ==
    (det.pc = "returned") =>
        \A risk \in det.risk_addresses :
            LET distances == single_source_shortest_path_length(
                                 det.flows, risk, config.proximity_analysis.max_distance)
            IN \A a \in DOMAIN distances \ {risk} :
                  Cardinality({q \in det.patterns_by_id :
                                  /\ q.risk_source_address = risk
                                  /\ q.addresses_involved = <<risk, a>>
                                  /\ q.distance_to_risk = distances[a]}) = 1

\* C26: in one call of the layering detection the number of simple paths taken
\* from the enumeration, over all (source, target) pairs, never exceeds
\* max_paths_to_check, and once the limit is reached no further pair is enumerated.
C26_GlobalCap ==
    [][/\ det'.paths_checked <= config.path_analysis.max_paths_to_check
       /\ (det.paths_checked >= config.path_analysis.max_paths_to_check
              => det'.enumerated = det.enumerated)]_vars

\* The limit was reached and cut the enumeration short: a pair that has paths
\* was never enumerated.
C26_Witness ==
    /\ det.pc = "returned"
    /\ det.paths_checked = config.path_analysis.max_paths_to_check
    /\ \E source \in SeqToSet(LayeringSources(det)), target \in SeqToSet(LayeringTargets(det)) :
         /\ source # target
         /\ <<source, target>> \notin det.enumerated
         /\ all_simple_paths(det.flows, source, target,
                             config.path_analysis.max_path_length) # {}

\* C30: in every layering pattern address_roles is as long as
\* addresses_involved and aligned with it: the address at the position of role
\* source is source_address, the address at the position of role destination is
\* destination_address, and the other positions hold the intermediaries.
C30_RolesAligned ==
    \A q \in det.patterns_by_id :
        /\ Len(q.address_roles) = Len(q.addresses_involved)
        /\ \A k \in 1 .. Len(q.address_roles) :
             /\ q.address_roles[k] = "source"
                   => q.addresses_involved[k] = q.source_address
             /\ q.address_roles[k] = "destination"
                   => q.addresses_involved[k] = q.destination_address
             /\ q.address_roles[k] = "intermediary"
                   => q.addresses_involved[k] \notin {q.source_address, q.destination_address}

\* C27: no stage is entered twice in one attempt, a new attempt of a run is
\* either its dispatch or a retry of the failed run as a whole, the retries never
\* exceed max_retries, and a run that failed with its retries used up and no
\* dispatch left stays as it is.
C27_BoundedRetry ==
    [][\A r \in Runs :
          /\ run'[r].retries <= max_retries
          /\ \A k1, k2 \in 1 .. Len(run'[r].stages) :
                run'[r].stages[k1] = run'[r].stages[k2] => k1 = k2
          /\ run'[r].attempt # run[r].attempt
                => \/ /\ run[r].pc = "failed"
                      /\ run'[r].retries = run[r].retries + 1
                      /\ run'[r].stages = <<StageOrder[1]>>
                   \/ /\ run'[r].budget = run[r].budget - 1
                      /\ run'[r].retries = 0
          /\ (run[r].pc = "failed" /\ run[r].retries = max_retries /\ run[r].budget = 0)
                => run'[r] = run[r]]_vars

\* The run failed in its fourth attempt, the third retry, in the pattern stage.
C27_Witness ==
    \E r \in Runs :
        /\ run[r].pc = "failed"
        /\ run[r].retries = max_retries
        /\ run[r].attempt = max_retries + 1
        /\ run[r].error_stage = "patterns"

\* C28: whatever the timezone of the host, every feature row and every pattern
\* row a run has inserted carries the processing_date of the run's context,
\* the partition the stage deleted before it wrote.
C28_WritesDeletedPartition ==
    \A r \in Runs :
        \A row \in FeatureRowsOf(r) \cup PatternRowsOf(r) :
            /\ row.window_days = run[r].window_days
            /\ row.processing_date = run[r].processing_date

\* C29: the audit row of a successful run has created_at equal to the time the
\* run entered execute_task, end_at equal to the time its last stage returned,
\* and duration_seconds equal to end_at minus created_at.
C29_AuditCoversRun ==
    det.pc = "success" =>
        /\ Len(det.audit) = 1
        /\ det.audit[1].created_at = det.entered_at
        /\ det.audit[1].end_at = det.stages_returned_at
        /\ det.audit[1].duration_seconds = det.audit[1].end_at - det.audit[1].created_at

====
